---- MODULE Spec2Model ----
(***************************************************************************)
(* Model of mementor (src/mementor.go, version 0.2.0): a command line tool  *)
(* keeping mementos in one JSON file.  Every invocation of the program is   *)
(* one step: main() dispatches on the command, the handler loads the whole  *)
(* file, changes the list in memory and rewrites the whole file.            *)
(*                                                                         *)
(* Text (command line arguments, messages) is a sequence of one-character   *)
(* strings, so that strings.Join, strings.Split, strconv.ParseInt and the   *)
(* regular expressions of modify() are computed and not assumed.            *)
(***************************************************************************)
EXTENDS Integers, Sequences, FiniteSets, TLC

VARIABLES
    file,          \* content of the data file *dataFile
    last,          \* what the most recent invocation was given and what it did
    snap,          \* the store a successful add found, kept while the next
                   \* invocation removes the id that add assigned
    maxAssigned,   \* the greatest id any add has assigned so far (history)
    procs          \* the invocations of add that run at the same time on the
                   \* one data file, each with its position and its memory

vars == <<file, last, snap, maxAssigned, procs>>

\* Greatest id the model lets add assign.
MaxId == 3

(***************************************************************************)
(* Text helpers                                                            *)
(***************************************************************************)
Space == <<" ">>
Colon == ":"

\* strings.Join(a, sep)
RECURSIVE Join(_, _)
Join(a, sep) ==
    IF Len(a) = 0 THEN <<>>
    ELSE IF Len(a) = 1 THEN a[1]
    ELSE a[1] \o sep \o Join(Tail(a), sep)

\* strings.Split(s, sep) for a one-character separator: the pieces between the
\* separators, so n separators give n+1 pieces and "" gives one empty piece.
\* start is where the current piece begins, i the character looked at.
RECURSIVE SplitFrom(_, _, _, _)
SplitFrom(s, sep, start, i) ==
    IF i > Len(s) THEN <<SubSeq(s, start, Len(s))>>
    ELSE IF s[i] = sep
         THEN <<SubSeq(s, start, i - 1)>> \o SplitFrom(s, sep, i + 1, i + 1)
         ELSE SplitFrom(s, sep, start, i + 1)

Split(s, sep) == SplitFrom(s, sep, 1, 1)

DigitValue ==
    "0" :> 0 @@ "1" :> 1 @@ "2" :> 2 @@ "3" :> 3 @@ "4" :> 4 @@
    "5" :> 5 @@ "6" :> 6 @@ "7" :> 7 @@ "8" :> 8 @@ "9" :> 9

IsDigit(c) == c \in DOMAIN DigitValue

\* the number a text of digits stands for; acc is the value of those before i
RECURSIVE DigitsValue(_, _, _)
DigitsValue(s, i, acc) ==
    IF i > Len(s) THEN acc
    ELSE DigitsValue(s, i + 1, 10 * acc + DigitValue[s[i]])

\* strconv.ParseInt(s, 10, 0): an optional sign, then one or more decimal digits.
\* The texts of the model are far below the 64 bit range, so the range error
\* cannot occur.
ParseInt(s) ==
    LET signed == Len(s) > 0 /\ s[1] \in {"+", "-"}
        first  == IF signed THEN 2 ELSE 1
    IN  IF first > Len(s) \/ \E i \in first..Len(s) : ~IsDigit(s[i])
        THEN [ok |-> FALSE, value |-> 0]
        ELSE [ok |-> TRUE,
              value |-> IF s[1] = "-"
                        THEN 0 - DigitsValue(s, first, 0)
                        ELSE DigitsValue(s, first, 0)]

\* regexp "^p.*" matched anywhere in s: s starts with p (".*" also matches nothing)
HasPrefix(s, p) == Len(s) >= Len(p) /\ SubSeq(s, 1, Len(p)) = p

rePriority(s) == HasPrefix(s, <<"p", "r", "i">>)

reMsg(s) == HasPrefix(s, <<"m">>)

(***************************************************************************)
(* The data file and its I/O                                               *)
(***************************************************************************)
\* Memento, as json.Marshal writes it and json.Decoder reads it back: the four
\* exported fields are an int, a string, an int64 and an int, which the JSON
\* round trip returns as they were.
Memento(id, msg, time, priority) ==
    [Id |-> id, Msg |-> msg, Time |-> time, Priority |-> priority]

\* The three kinds of content the file can have: no bytes at all (a file that
\* os.Create has just made or truncated), a complete JSON array of Mementos, or
\* a text that is no JSON value (a write that stopped part way).
EmptyFile == [kind |-> "empty", recs |-> <<>>]

Malformed == [kind |-> "malformed", recs |-> <<>>]

Json(mementos) == [kind |-> "json", recs |-> mementos]

\* The I/O failures one invocation can meet: os.Open fails, os.Create (or
\* os.MkdirAll) fails, file.Write fails after no byte or after some bytes.
Faults == {"none", "open", "create", "write0", "writePart"}

\* readMementos(): the whole file decoded; io.EOF (no bytes) is an empty list.
readMementos(f, fault) ==
    IF fault = "open" THEN [mementos |-> <<>>, err |-> "IO", io |-> "open"]
    ELSE IF f.kind = "malformed"
         THEN [mementos |-> <<>>, err |-> "Parse", io |-> "none"]
         ELSE [mementos |-> f.recs, err |-> "nil", io |-> "none"]

\* writeMementos that adds its text after what the file holds (the file opened
\* for appending) instead of writing it from the start
writeAppended(mementos, f, fault) ==
    [file |-> Json(f.recs \o mementos), err |-> "nil", io |-> "none"]

\* createFile() followed by file.Write(json.Marshal(mementos)), as writeMementos
\* does them: a failed createFile leaves the file as it was, a failed Write leaves
\* the truncated file with the bytes written so far.
writeMementos(mementos, f, fault) ==
    CASE fault = "create"    -> [file |-> f, err |-> "IO", io |-> fault]
      [] fault = "write0"    -> [file |-> EmptyFile, err |-> "IO", io |-> fault]
      [] fault = "writePart" -> [file |-> Malformed, err |-> "IO", io |-> fault]
      [] OTHER               -> [file |-> Json(mementos), err |-> "nil", io |-> "none"]

(***************************************************************************)
(* Lookup                                                                  *)
(***************************************************************************)
\* Search with the comparison of the callback written > instead of >=
RECURSIVE SearchGreater(_, _, _, _)
SearchGreater(mementos, id, i, j) ==
    IF i < j
    THEN LET h == (i + j) \div 2
         IN  IF ~(mementos[h + 1].Id > id)
             THEN SearchGreater(mementos, id, h + 1, j)
             ELSE SearchGreater(mementos, id, i, h)
    ELSE i

\* sort.Search(count, func(i) { return mementos[i].Id >= id }): the loop of the
\* standard library, on 0-based indices i <= j.
RECURSIVE Search(_, _, _, _)
Search(mementos, id, i, j) ==
    IF i < j
    THEN LET h == (i + j) \div 2
         IN  IF ~(mementos[h + 1].Id >= id)
             THEN Search(mementos, id, h + 1, j)
             ELSE Search(mementos, id, i, h)
    ELSE i

\* findMementoById without the comparison of the id found with the id sought
findAtOrAbove(mementos, id) ==
    LET count == Len(mementos)
        n     == Search(mementos, id, 0, count)
    IN  IF n < count
        THEN [n |-> n, ok |-> TRUE]
        ELSE [n |-> 0, ok |-> FALSE]

\* findMementoById: the 0-based index of the memento with this id, and whether
\* there is one.
findMementoById(mementos, id) ==
    LET count == Len(mementos)
        n     == Search(mementos, id, 0, count)
    IN  IF n < count /\ mementos[n + 1].Id = id
        THEN [n |-> n, ok |-> TRUE]
        ELSE [n |-> 0, ok |-> FALSE]

\* parseId(): args[1] as a non-negative decimal number.
parseId(args) ==
    IF Len(args) < 2 THEN [id |-> 0, err |-> "InvalidArgument"]
    ELSE LET p == ParseInt(args[2])
         IN  IF ~p.ok \/ p.value < 0
             THEN [id |-> 0, err |-> "InvalidArgument"]
             ELSE [id |-> p.value, err |-> "nil"]

(***************************************************************************)
(* The handlers.  Each returns the file it leaves, the error it returns,    *)
(* what it prints, the id it assigned (add), the clock reading it took      *)
(* (add), whether it called writeMementos and the I/O failure it met.       *)
(***************************************************************************)
NoOut == [printed |-> FALSE, text |-> <<>>]

Result(f, err, out, newId, time, wrote, io) ==
    [file |-> f, err |-> err, out |-> out, newId |-> newId, time |-> time,
     wrote |-> wrote, io |-> io]

Fail(f, err, io) == Result(f, err, NoOut, 0, 0, FALSE, io)

\* lastId taken from the first memento instead of the last
lastIdOfFirst(mementos) ==
    IF Len(mementos) < 1 THEN 0 ELSE mementos[1].Id

\* lastId taken to be the number of mementos
lastIdIsCount(mementos) == Len(mementos)

\* lastId with the test for the empty list off by one
lastIdOffByOne(mementos) ==
    IF Len(mementos) <= 1 THEN 0 ELSE mementos[Len(mementos)].Id

\* add(), lines 260-266: the id of the last memento, 0 for an empty list
lastId(mementos) ==
    IF Len(mementos) < 1 THEN 0 ELSE mementos[Len(mementos)].Id

add(args, f, now, fault) ==
    IF Len(args) < 2 THEN Fail(f, "InvalidArgument", "none")
    ELSE LET msg == Join(Tail(args), Space)
             rd  == readMementos(f, fault)
             m   == Memento(lastId(rd.mementos) + 1, msg, now, 1)
         IN  IF rd.err # "nil"
             THEN Result(f, rd.err, NoOut, 0, now, FALSE, rd.io)
             ELSE LET w == writeMementos(Append(rd.mementos, m), f, fault)
                  IN  Result(w.file, w.err, NoOut, m.Id, now, TRUE, w.io)

\* removeAt with the rest taken from mementos[n+2:] instead of mementos[n+1:]
removeAtAndNext(mementos, n) ==
    SubSeq(mementos, 1, n) \o SubSeq(mementos, n + 3, Len(mementos))

\* remove(), lines 301-303: append(mementos[:n], mementos[n+1:]...)
removeAt(mementos, n) ==
    SubSeq(mementos, 1, n) \o SubSeq(mementos, n + 2, Len(mementos))

remove(args, f, fault) ==
    LET p == parseId(args)
    IN  IF p.err # "nil" THEN Fail(f, p.err, "none")
        ELSE LET rd == readMementos(f, fault)
             IN  IF rd.err # "nil" THEN Fail(f, rd.err, rd.io)
                 ELSE LET found == findMementoById(rd.mementos, p.id)
                      IN  IF ~found.ok THEN Fail(f, "NotFound", "none")
                          ELSE LET w == writeMementos(
                                            removeAt(rd.mementos, found.n), f, fault)
                               \* line 304 drops what writeMementos returns
                               IN  Result(w.file, "nil", NoOut, 0, 0, TRUE, w.io)

\* setPriority on a copy of the memento (m := *mementos[n]): the list is not changed
setPriorityOfCopy(mementos, n, value) == mementos

\* modify(), lines 229-237: m.Priority = int(value) through the pointer m
setPriority(mementos, n, value) ==
    [mementos EXCEPT ![n + 1].Priority = value]

\* modify(), lines 238-242: m.Msg = mod[0] through the pointer m
setMsg(mementos, n, mod) ==
    [mementos EXCEPT ![n + 1].Msg = mod[1]]

modify(args, f, fault) ==
    IF Len(args) < 3 THEN Fail(f, "InvalidArgument", "none")
    ELSE
    LET p == parseId(args)
    IN  IF p.err # "nil" THEN Fail(f, p.err, "none")
        ELSE
        LET rd == readMementos(f, fault)
        IN  IF rd.err # "nil" THEN Fail(f, rd.err, rd.io)
            ELSE
            LET found == findMementoById(rd.mementos, p.id)
                mod   == Split(args[3], Colon)
            IN  IF ~found.ok THEN Fail(f, "NotFound", "none")
                ELSE IF Len(mod) < 2 THEN Fail(f, "InvalidArgument", "none")
                ELSE IF rePriority(mod[1])
                THEN LET v == ParseInt(mod[2])
                     IN  IF ~v.ok THEN Fail(f, "InvalidArgument", "none")
                         ELSE LET w == writeMementos(
                                  setPriority(rd.mementos, found.n, v.value), f, fault)
                              IN  Result(w.file, w.err, NoOut, 0, 0, TRUE, w.io)
                ELSE IF reMsg(mod[1])
                THEN LET w == writeMementos(
                                  setMsg(rd.mementos, found.n, mod), f, fault)
                     IN  Result(w.file, w.err, NoOut, 0, 0, TRUE, w.io)
                ELSE Fail(f, "InvalidArgument", "none")

\* fetch(): the message of the memento rand.Intn(len(mementos)) picked (rnd)
fetch(f, rnd, fault) ==
    LET rd == readMementos(f, fault)
    IN  IF rd.err # "nil" THEN Fail(f, rd.err, rd.io)
        ELSE IF Len(rd.mementos) < 1 THEN Fail(f, "nil", "none")
        ELSE Result(f, "nil", [printed |-> TRUE, text |-> rd.mementos[rnd + 1].Msg],
                    0, 0, FALSE, "none")

\* list(): the header, one line per memento and the total; the printed lines are
\* kept as the list of ids and the total.
list(f, fault) ==
    LET rd == readMementos(f, fault)
    IN  IF rd.err # "nil" THEN Fail(f, rd.err, rd.io)
        ELSE Result(f, "nil",
                    [printed |-> TRUE,
                     text |-> [i \in 1..Len(rd.mementos) |-> rd.mementos[i].Id]],
                    0, 0, FALSE, "none")

\* main(): dispatch on args[0]; the error a handler returns is printed by
\* pr.error, except that the value of fetch() is not assigned to err (line 118).
\* version, help and an unknown command touch neither the file nor err; the
\* state machine does not invoke them.
main(args, f, now, rnd, fault) ==
    LET command == IF Len(args) > 0 THEN args[1] ELSE "fetch"
        r == CASE command = "add"               -> add(args, f, now, fault)
               [] command = "fetch"             -> fetch(f, rnd, fault)
               [] command \in {"rm", "del"}     -> remove(args, f, fault)
               [] command \in {"modify", "mod"} -> modify(args, f, fault)
               [] command \in {"list", "ls"}    -> list(f, fault)
               [] OTHER                         -> Fail(f, "nil", "none")
        err == IF command = "fetch" THEN "nil" ELSE r.err
    IN  [file |-> r.file, returned |-> r.err, shown |-> err # "nil", out |-> r.out,
         newId |-> r.newId, time |-> r.time, wrote |-> r.wrote, io |-> r.io]

(***************************************************************************)
(* Inputs of the model.  An input is the argument list after the command   *)
(* together with the I/O failure the invocation meets.                      *)
(***************************************************************************)
IdText(n) == <<CHOOSE c \in DOMAIN DigitValue : DigitValue[c] = n>>

\* ids add can assign, as they are typed on the command line
StoredIds == {IdText(n) : n \in 1..MaxId}

\* what is given as an id: no number, a negative number, 0 (the id of no
\* memento) and every id add can assign
IdArgs == {<<"x">>, <<"-", "1">>, IdText(0)} \cup StoredIds

PersistFaults == Faults \ {"none", "open"}

In(rest, fault) == [rest |-> rest, fault |-> fault]

\* add: no message, one empty text, two words; the two words under every failure
TwoWords == << <<"a">>, <<"b">> >>

AddInputs ==
    {In(<<>>, "none"), In(<< <<>> >>, "none")}
    \cup {In(TwoWords, f) : f \in Faults}

\* readings of time.Now().Unix()
Times == {1}

\* the ids the failures of the rewrite are tried on: the least and the greatest
FaultIds == {IdText(1), IdText(MaxId)}

\* rm: no id, every id; the rewrite fails for the ids of FaultIds
RemoveInputs ==
    {In(<<>>, "none"), In(<<IdText(1)>>, "open")}
    \cup {In(<<a>>, "none") : a \in IdArgs}
    \cup {In(<<a>>, f) : a \in FaultIds, f \in PersistFaults}

\* modify: what is given as the modification.  A priority, a message, a value
\* that is no number, a field that is no field, a text without a colon.
PriorityFive == <<"p", "r", "i", ":", "5">>

MsgHi == <<"m", ":", "h", "i">>

NotANumber == <<"p", "r", "i", ":", "x">>

NoField == <<"x", ":", "1">>

NoColon == <<"p", "r", "i">>

\* modify: too few arguments; a priority for every id; a message and the
\* rejected modifications for the ids 0 and 1; the rewrite fails for id 1
ModifyInputs ==
    {In(<<>>, "none"), In(<<IdText(1)>>, "none"),
     In(<<IdText(1), PriorityFive>>, "open")}
    \cup {In(<<a, PriorityFive>>, "none") : a \in IdArgs}
    \cup {In(<<a, m>>, "none") : a \in {IdText(0), IdText(1)},
                                 m \in {MsgHi, NotANumber, NoField, NoColon}}
    \cup {In(<<IdText(1), PriorityFive>>, f) : f \in PersistFaults}
    \cup {In(<<IdText(1), MsgHi>>, "create")}

(***************************************************************************)
(* State machine: one step is one run of the program                       *)
(***************************************************************************)
NoSnap == [state |-> "none", recs |-> <<>>, id |-> 0, args |-> <<>>]

\* last holds the arguments of the invocation in args and what main returned in
\* the other fields
Boot == [args |-> <<>>, returned |-> "nil", shown |-> FALSE, out |-> NoOut,
         newId |-> 0, time |-> 0, wrote |-> FALSE, io |-> "none"]

\* the processes that can run at the same time
Procs == {1, 2}

\* a process that has not run add: pc is where it is in add(), args its
\* arguments, base the list readMementos returned, mementos the list in its
\* memory, newId the id it assigned, returned what add returned
Idle == [pc |-> "idle", args |-> <<>>, base |-> <<>>, mementos |-> <<>>,
         newId |-> 0, returned |-> "nil"]

\* init() creates the data file, empty, when there is none
Init ==
    /\ file = EmptyFile
    /\ last = Boot
    /\ snap = NoSnap
    /\ maxAssigned = 0
    /\ procs = [p \in Procs |-> Idle]

Invoke(args, now, rnd, fault) ==
    \E r \in {main(args, file, now, rnd, fault)} :
        \E added \in {args[1] = "add" /\ r.wrote /\ r.returned = "nil"} :
            /\ file' = r.file
            /\ last' = [args |-> args, returned |-> r.returned, shown |-> r.shown,
                        out |-> r.out, newId |-> r.newId, time |-> r.time,
                        wrote |-> r.wrote, io |-> r.io]
            /\ snap' = IF added
                       THEN [state |-> "added", recs |-> file.recs, id |-> r.newId,
                             args |-> args]
                       ELSE IF /\ snap.state = "added"
                               /\ args = <<"rm", IdText(snap.id)>>
                               /\ r.io = "none"
                       THEN [snap EXCEPT !.state = "removed"]
                       ELSE NoSnap
            /\ maxAssigned' = IF added /\ r.newId > maxAssigned
                              THEN r.newId ELSE maxAssigned
            /\ UNCHANGED procs

\* init() has run before main: the data file exists
Started == file.kind \in {"empty", "json", "malformed"}

Add ==
    /\ Started
    /\ lastId(file.recs) < MaxId
    /\ \E in \in AddInputs, now \in Times :
          Invoke(<<"add">> \o in.rest, now, 0, in.fault)

Remove ==
    /\ Started
    /\ \E in \in RemoveInputs : Invoke(<<"rm">> \o in.rest, 0, 0, in.fault)

Modify ==
    /\ Started
    /\ \E in \in ModifyInputs : Invoke(<<"modify">> \o in.rest, 0, 0, in.fault)

Fetch ==
    /\ Started
    /\ \E rnd \in 0..(IF Len(file.recs) > 0 THEN Len(file.recs) - 1 ELSE 0),
          fault \in {"none", "open"} :
          Invoke(<<"fetch">>, 0, rnd, fault)

List ==
    /\ Started
    /\ \E fault \in {"none", "open"} : Invoke(<<"list">>, 0, 0, fault)

Next == Add \/ Remove \/ Modify \/ Fetch \/ List

Spec == Init /\ [][Next]_vars

(***************************************************************************)
(* Invocations of add that overlap.  Nothing locks the data file, so the    *)
(* accesses of add() to it are steps of their own: readMementos (line 259), *)
(* the truncation by createFile (line 328) and file.Write (line 337).       *)
(* Between them the process only works on the list in its memory.  A        *)
(* process that is done can run add again.                                  *)
(***************************************************************************)
\* the messages the overlapping invocations add
RaceArgs == {<<"add">> \o TwoWords, <<"add", <<"c">>>>}

\* createFile(): os.Create leaves the file with no bytes
createFile(f) == EmptyFile

\* add() up to line 277: the arguments, the load and the new memento appended
\* to the list in memory
RaceLoad(p) ==
    /\ Started
    /\ procs[p].pc \in {"idle", "done"}
    /\ lastId(file.recs) < MaxId
    /\ \E args \in RaceArgs, now \in Times :
          \E rd \in {readMementos(file, "none")} :
              /\ rd.err = "nil"
              /\ procs' = [procs EXCEPT ![p] =
                    [pc |-> "loaded", args |-> args, base |-> rd.mementos,
                     mementos |-> Append(rd.mementos,
                         Memento(lastId(rd.mementos) + 1,
                                 Join(Tail(args), Space), now, 1)),
                     newId |-> lastId(rd.mementos) + 1, returned |-> "nil"]]
    /\ UNCHANGED <<file, last, snap, maxAssigned>>

\* writeMementos(), line 328: the file is truncated
RaceCreate(p) ==
    /\ procs[p].pc = "loaded"
    /\ file' = createFile(file)
    /\ procs' = [procs EXCEPT ![p].pc = "created"]
    /\ UNCHANGED <<last, snap, maxAssigned>>

\* writeMementos(), lines 333-339, and the return of add(): the list in memory
\* is written from the start of the file.  What a later load decodes is this
\* list, also when a longer text of another process was there (the decoder
\* reads one JSON value and stops).
RaceWrite(p) ==
    /\ procs[p].pc = "created"
    /\ \E w \in {writeMementos(procs[p].mementos, file, "none")} :
          /\ file' = w.file
          /\ procs' = [procs EXCEPT ![p].pc = "done", ![p].returned = w.err]
    /\ UNCHANGED <<last, snap, maxAssigned>>

NextRace == \E p \in Procs : RaceLoad(p) \/ RaceCreate(p) \/ RaceWrite(p)

SpecRace == Init /\ [][NextRace]_vars

(***************************************************************************)
(* Vocabulary of the properties                                            *)
(***************************************************************************)
\* the command of the invocation recorded in l ("" before the first one)
CmdOf(l) == IF Len(l.args) > 0 THEN l.args[1] ELSE ""

\* the text add is given: its arguments joined by single spaces
MessageOf(args) == Join(Tail(args), Space)

Ids(recs) == {recs[i].Id : i \in 1..Len(recs)}

Ascending(recs) == \A i \in 1..Len(recs) - 1 : recs[i].Id < recs[i + 1].Id

GreatestId(recs) ==
    IF recs = <<>> THEN 0 ELSE CHOOSE m \in Ids(recs) : \A k \in Ids(recs) : k <= m

\* the part of a field:value argument after its first colon
ValueOf(arg) ==
    LET colons == {i \in 1..Len(arg) : arg[i] = Colon}
        first  == CHOOSE i \in colons : \A j \in colons : i <= j
    IN  SubSeq(arg, first + 1, Len(arg))

\* l records an invocation of rm or modify that names, as a non-negative
\* number, an id
NamesId(l) ==
    /\ \/ CmdOf(l) = "rm" /\ Len(l.args) >= 2
       \/ CmdOf(l) = "modify" /\ Len(l.args) >= 3
    /\ ParseInt(l.args[2]).ok
    /\ ParseInt(l.args[2]).value >= 0

IdNamed(l) == ParseInt(l.args[2]).value

(***************************************************************************)
(* C1: whatever add, rm and modify invocations have run, succeeding or      *)
(* failing, the ids of the records in the data file are strictly ascending  *)
(* in stored order, hence pairwise distinct.                                *)
(***************************************************************************)
C1_IdsAscending ==
    /\ Ascending(file.recs)
    /\ Cardinality(Ids(file.recs)) = Len(file.recs)

\* three records are stored, the last written by a modify, after failures
C1_Witness ==
    /\ Len(file.recs) = MaxId
    /\ CmdOf(last) = "modify" /\ last.wrote /\ last.io = "none"
    /\ maxAssigned = MaxId

(***************************************************************************)
(* C2: rm and modify naming an id that no stored record carries, whatever   *)
(* the modification, return the not-found error, which main prints, and     *)
(* leave the data file as it was without calling writeMementos.             *)
(***************************************************************************)
C2_AbsentIdNotFound ==
    [][(/\ file.kind # "malformed"
        /\ NamesId(last')
        /\ last'.io # "open"
        /\ IdNamed(last') \notin Ids(file.recs))
       => (/\ last'.returned = "NotFound"
           /\ last'.shown
           /\ ~last'.wrote
           /\ file' = file)]_vars

\* modify was given an id between two stored ids and reported not-found
C2_Witness ==
    /\ CmdOf(last) = "modify"
    /\ last.returned = "NotFound"
    /\ Len(file.recs) = 2
    /\ file.recs[1].Id < IdNamed(last)
    /\ IdNamed(last) < file.recs[2].Id

(***************************************************************************)
(* C3: when add of a non-empty message has succeeded and the next           *)
(* invocation is rm of the id that add assigned, meeting no I/O failure,    *)
(* rm succeeds and the file holds exactly the sequence add had found.       *)
(***************************************************************************)
C3_AddThenRemoveRestores ==
    (snap.state = "removed" /\ MessageOf(snap.args) # <<>>)
    => (/\ last.returned = "nil"
        /\ file.kind = "json"
        /\ file.recs = snap.recs)

\* add then rm of the new id on a store that held two records, both modified
C3_Witness ==
    /\ snap.state = "removed"
    /\ MessageOf(snap.args) # <<>>
    /\ Len(snap.recs) = 2
    /\ snap.recs[1].Msg = <<"m">>
    /\ snap.recs[2].Priority = 5
    /\ CmdOf(last) = "rm"
    /\ file.recs = snap.recs

(***************************************************************************)
(* C4: add of a non-empty message on a readable store, meeting no I/O       *)
(* failure, writes the sequence it found, unchanged and in the same order,  *)
(* followed by one new record: id = greatest stored id + 1 (1 for the empty *)
(* store), the given message, the clock reading, priority 1.                *)
(***************************************************************************)
C4_AddAppends ==
    [][(/\ file.kind # "malformed"
        /\ CmdOf(last') = "add"
        /\ Len(last'.args) >= 2
        /\ MessageOf(last'.args) # <<>>
        /\ last'.io = "none")
       => (/\ last'.returned = "nil"
           /\ file'.kind = "json"
           /\ file'.recs = Append(file.recs,
                  Memento(GreatestId(file.recs) + 1, MessageOf(last'.args),
                          last'.time, 1))
           /\ last'.newId = GreatestId(file.recs) + 1)]_vars

\* add succeeded on a store whose first id was not 1 and that had a modified
\* record
C4_Witness ==
    /\ CmdOf(last) = "add"
    /\ last.returned = "nil" /\ last.wrote
    /\ Len(file.recs) = 2
    /\ file.recs[1].Id = 2
    /\ file.recs[1].Priority = 5
    /\ file.recs[2].Msg = <<"a", " ", "b">>

(***************************************************************************)
(* C5: add fails with the invalid-argument error and leaves the data file   *)
(* unchanged when no message is given and also when the message given is    *)
(* the empty text.                                                          *)
(***************************************************************************)
C5_AddRejectsEmptyMessage ==
    [][(/\ CmdOf(last') = "add"
        /\ (Len(last'.args) < 2 \/ MessageOf(last'.args) = <<>>))
       => (/\ last'.returned = "InvalidArgument"
           /\ last'.shown
           /\ file' = file)]_vars

(***************************************************************************)
(* C6: modify of a stored id with a message-like field, meeting no I/O      *)
(* failure, writes the store with that record's message set to the value:   *)
(* the text after the first colon of the field:value argument.              *)
(***************************************************************************)
C6_ModifySetsMessageToValue ==
    [][(/\ file.kind # "malformed"
        /\ CmdOf(last') = "modify"
        /\ NamesId(last')
        /\ IdNamed(last') \in Ids(file.recs)
        /\ last'.args[3] = MsgHi
        /\ last'.io = "none")
       => (/\ last'.returned = "nil"
           /\ file'.kind = "json"
           /\ \A i \in 1..Len(file.recs) :
                 file.recs[i].Id = IdNamed(last')
                 => file'.recs = [file.recs EXCEPT ![i].Msg = ValueOf(MsgHi)])]_vars

(***************************************************************************)
(* C7: modify of a stored id with priority:N, N a number, meeting no I/O    *)
(* failure, writes the store with that record's priority set to N and       *)
(* nothing else changed: the record's id, message and creation time, every  *)
(* other record, the number and the order of the records.                   *)
(***************************************************************************)
C7_ModifyPriorityFrame ==
    [][(/\ file.kind # "malformed"
        /\ CmdOf(last') = "modify"
        /\ NamesId(last')
        /\ IdNamed(last') \in Ids(file.recs)
        /\ rePriority(last'.args[3])
        /\ Colon \in {last'.args[3][i] : i \in 1..Len(last'.args[3])}
        /\ ParseInt(ValueOf(last'.args[3])).ok
        /\ last'.io = "none")
       => (/\ last'.returned = "nil"
           /\ file'.kind = "json"
           /\ \A i \in 1..Len(file.recs) :
                 file.recs[i].Id = IdNamed(last')
                 => file'.recs =
                       [file.recs EXCEPT
                           ![i].Priority = ParseInt(ValueOf(last'.args[3])).value])]_vars

\* the middle one of three records was given priority 5, its neighbours have
\* priority 1 and a message of their own
C7_Witness ==
    /\ CmdOf(last) = "modify"
    /\ Len(last.args) = 3
    /\ last.args[3] = PriorityFive
    /\ last.returned = "nil" /\ last.wrote /\ last.io = "none"
    /\ Len(file.recs) = 3
    /\ IdNamed(last) = file.recs[2].Id
    /\ file.recs[2].Priority = 5
    /\ file.recs[1].Priority = 1
    /\ file.recs[3].Priority = 1
    /\ file.recs[1].Msg # file.recs[2].Msg

(***************************************************************************)
(* C8: an invocation whose load of the data file fails with a parse error   *)
(* prints an error line and does not write the file; in particular fetch    *)
(* on a malformed file is not silent.                                       *)
(***************************************************************************)
C8_ParseErrorReported ==
    last.returned = "Parse" => (last.shown /\ ~last.wrote)

(***************************************************************************)
(* C9: add, rm and modify print an error whenever their writeMementos       *)
(* failed (the file could not be created or not be written).                *)
(***************************************************************************)
C9_PersistFailureReported ==
    (/\ CmdOf(last) \in {"add", "rm", "modify"}
     /\ last.wrote
     /\ last.io \in PersistFaults)
    => (last.returned = "IO" /\ last.shown)

(***************************************************************************)
(* C10: ids are assigned monotonically: each successful add assigns an id   *)
(* greater than the id assigned by every earlier add, so no id is given to  *)
(* a second record once the record that held it was removed.                *)
(***************************************************************************)
C10_IdsNeverReused ==
    [][(/\ CmdOf(last') = "add"
        /\ last'.wrote
        /\ last'.returned = "nil"
        /\ last.io = "none")
       => last'.newId > maxAssigned]_vars

\* C10 as amended: each successful add assigns an id greater than the id of
\* every record that is in the store when it runs, the greatest of them plus
\* one; an id whose record was removed is assigned again when no record with a
\* greater or equal id is left.
C10_IdAboveStoredIds ==
    [][(/\ CmdOf(last') = "add"
        /\ last'.wrote
        /\ last'.returned = "nil")
       => (/\ \A k \in Ids(file.recs) : last'.newId > k
           /\ last'.newId \in Ids(file'.recs)
           /\ last'.newId <= maxAssigned'
           /\ (last'.newId <= maxAssigned => last'.newId \notin Ids(file.recs)))]_vars

\* add has assigned an id below the greatest id ever assigned
C10_Witness ==
    /\ CmdOf(last) = "add"
    /\ last.wrote /\ last.returned = "nil"
    /\ last.newId < maxAssigned
    /\ Len(file.recs) >= 2

(***************************************************************************)
(* C12: rm of an id some stored record carries, wherever that record is     *)
(* (first, middle, last, the only one), meeting no I/O failure, succeeds    *)
(* and writes the sequence it found with that one record deleted: the       *)
(* other records are all there, once, unchanged and in the same order.      *)
(***************************************************************************)
\* recs without the records that carry id
Without(recs, id) ==
    LET Other(m) == m.Id # id IN SelectSeq(recs, Other)

C12_RemoveDeletesOne ==
    [][(/\ file.kind # "malformed"
        /\ CmdOf(last') = "rm"
        /\ NamesId(last')
        /\ IdNamed(last') \in Ids(file.recs)
        /\ last'.io = "none")
       => (/\ last'.returned = "nil"
           /\ last'.wrote
           /\ file'.kind = "json"
           /\ Len(file'.recs) = Len(file.recs) - 1
           /\ file'.recs = Without(file.recs, IdNamed(last')))]_vars

\* the middle one of three records was removed; the two left differ in
\* message and priority
C12_Witness ==
    /\ CmdOf(last) = "rm"
    /\ last.returned = "nil" /\ last.wrote /\ last.io = "none"
    /\ Len(file.recs) = 2
    /\ file.recs[1].Id = 1
    /\ IdNamed(last) = 2
    /\ file.recs[2].Id = 3
    /\ file.recs[1].Msg = <<"m">>
    /\ file.recs[2].Priority = 5

(***************************************************************************)
(* C11: two invocations of add that overlap on the one data file can both   *)
(* return success while the file ends with only one of the two new          *)
(* records.  Checked under SpecRace as what every such end looks like: when  *)
(* both have returned success the file holds exactly the list of one of     *)
(* them (the later write replaces the whole file), and when both had loaded *)
(* the same list the file holds that list and one new record, not two.      *)
(***************************************************************************)
BothDone == \A p \in Procs : procs[p].pc = "done" /\ procs[p].returned = "nil"

C11_LastWriterWins ==
    BothDone
    => (/\ \E p \in Procs : file = Json(procs[p].mementos)
        /\ (procs[1].base = procs[2].base
            => (/\ Len(file.recs) = Len(procs[1].base) + 1
                /\ \E p \in Procs :
                      file.recs = Append(procs[1].base,
                          Memento(GreatestId(procs[1].base) + 1,
                                  MessageOf(procs[p].args),
                                  file.recs[Len(file.recs)].Time, 1)))))

\* the lost update: both found the same one record and returned success, the
\* file holds the record of process 2 and no record with the message of
\* process 1
C11_Witness ==
    /\ BothDone
    /\ procs[1].base = procs[2].base
    /\ Len(procs[1].base) = 1
    /\ procs[1].args # procs[2].args
    /\ file = Json(procs[2].mementos)
    /\ Len(file.recs) = 2
    /\ \A i \in 1..Len(file.recs) : file.recs[i].Msg # MessageOf(procs[1].args)

====
